---------------------------- MODULE Spec2Model ----------------------------
(***************************************************************************)
(* Model of evaluation.py: the Streamlit page that lists the CSV reports   *)
(* of the data directory, extracts their metadata, and loads the Direction *)
(* and NEVA tables of the selected report.                                 *)
(*                                                                         *)
(* Text is modelled as a sequence of tokens.  A token is a piece of text   *)
(* that the program never looks inside; the characters and literals the    *)
(* program does look for (':', ' ', ',', '(', ')', the line end, the words *)
(* 'Error Distribution', 'Direction', 'NEVA' and the two column names) are *)
(* tokens of their own, so that "in", split() and strip() are computed on  *)
(* the token sequence exactly as Python computes them on the characters.   *)
(***************************************************************************)
EXTENDS Integers, Sequences, FiniteSets, TLC

VARIABLES
    \* the page (Spec)
    data_dir,      \* the entries of the directory "data", in os.listdir order
    pc,            \* position of the script run; it stays where an exception ended the run
    idx,           \* create_files_dataframe: index of the next file of the loop
    files_data,    \* create_files_dataframe: the rows appended so far
    choice,        \* st.session_state["file_selector"]: the user's last pick
    selected_file, \* the value st.selectbox returned in this run
    tables,        \* (dir_data, neva_data) of this run
    error,         \* the exception that ended this run, "none" if none did
    runs,          \* number of script runs started
    last_meta,     \* per entry, the outcome of its latest extract_metadata call
    last_tables,   \* per entry, the outcome of its latest load_and_process_data call
    \* the extraction functions on their own (SpecExtract)
    file,          \* the lines of the report under extraction
    metaResult,    \* outcome of the last extract_metadata(file)
    parsed,        \* the (error_type, param) locals of that call's loop
    loadResult     \* outcome of the last load_and_process_data(file)

pageVars == <<data_dir, pc, idx, files_data, choice, selected_file, tables,
              error, runs, last_meta, last_tables>>

extractVars == <<file, metaResult, parsed, loadResult>>

vars == <<pageVars, extractVars>>

-----------------------------------------------------------------------------
(* Python's str operations, on token sequences *)

Whitespace == {" ", "\n"}

\* pat occurs in s starting at position i
MatchAt(s, pat, i) ==
    /\ i >= 1
    /\ i + Len(pat) - 1 <= Len(s)
    /\ \A k \in 1..Len(pat) : s[i + k - 1] = pat[k]

\* `pat in s`
Contains(s, pat) == \E i \in 1..Len(s) : MatchAt(s, pat, i)

\* s.find(pat): the first position where pat occurs, 0 when it does not
Find(s, pat) ==
    LET hits == {i \in 1..Len(s) : MatchAt(s, pat, i)}
    IN  IF hits = {} THEN 0 ELSE CHOOSE i \in hits : \A j \in hits : i <= j

\* s.split(sep): the pieces between the non-overlapping occurrences of sep,
\* found left to right
RECURSIVE Split(_, _)
Split(s, sep) ==
    LET i == Find(s, sep) IN
    IF i = 0 THEN <<s>>
    ELSE <<SubSeq(s, 1, i - 1)>> \o Split(SubSeq(s, i + Len(sep), Len(s)), sep)

RECURSIVE LStrip(_)
LStrip(s) ==
    IF s # <<>> /\ Head(s) \in Whitespace THEN LStrip(Tail(s)) ELSE s

RECURSIVE RStrip(_)
RStrip(s) ==
    IF s # <<>> /\ s[Len(s)] \in Whitespace
    THEN RStrip(SubSeq(s, 1, Len(s) - 1)) ELSE s

\* s.strip()
Strip(s) == RStrip(LStrip(s))

\* sep.join(parts)
RECURSIVE Join(_, _)
Join(parts, sep) ==
    IF parts = <<>> THEN <<>>
    ELSE IF Len(parts) = 1 THEN parts[1]
    ELSE parts[1] \o sep \o Join(Tail(parts), sep)

-----------------------------------------------------------------------------
(* The literals of the program *)

FieldSep     == <<":", " ">>                                   \* ': '
ErrorMarker  == <<"Error Distribution", ":">>                  \* 'Error Distribution:'
DirMarker    == <<"Error Distribution", ":", " ", "Direction">>
NevaMarker   == <<"Error Distribution", ":", " ", "NEVA">>
ColV1        == <<"HIRESv1_MED_d0">>
ColV3        == <<"HIRESv3_MED_d1">>
NRows        == 4                                              \* nrows=4


-----------------------------------------------------------------------------
(* Outcomes.  A call either returns a value or raises; the exception is     *)
(* recorded by the name of its Python class.                                *)

NoMetadata ==
    [instruments |-> <<>>, periode |-> <<>>, model |-> <<>>, region |-> <<>>,
     type_erreur |-> <<>>]

NoTable == [header |-> <<>>, rows |-> <<>>]

NoTables == [dir_data |-> NoTable, neva_data |-> NoTable]

Returned(v) == [status |-> "returned", error |-> "none", value |-> v]

Raised(e, none) == [status |-> "raised", error |-> e, value |-> none]

NotCalled(none) == [status |-> "not_called", error |-> "none", value |-> none]

-----------------------------------------------------------------------------
(* extract_metadata *)

\* content[i].split(': ')[1] raises IndexError when the file has no line i
\* (0-based) or when the line has no ': '
HeaderFieldFails(content, i) ==
    \/ Len(content) < i + 1
    \/ Len(Split(content[i + 1], FieldSep)) < 2

\* content[i].split(': ')[1].strip()
HeaderField(content, i) == Strip(Split(content[i + 1], FieldSep)[2])

\* error_info = line.split('Error Distribution:')[1].strip()
error_info(line) == Strip(Split(line, ErrorMarker)[2])

\* (variant: the text after '(' is not cut at ')')
param_uncut(info) ==
    IF Contains(info, <<"(">>) THEN Split(info, <<"(">>)[2] ELSE <<>>

\* param = error_info.split('(')[1].split(')')[0] if '(' in error_info else ''
param(info) ==
    IF Contains(info, <<"(">>)
    THEN Split(Split(info, <<"(">>)[2], <<")">>)[1]
    ELSE <<>>

\* error_type = error_info.split('(')[0].strip()
error_type(info) == Strip(Split(info, <<"(">>)[1])

\* the lines of content that contain 'Error Distribution:', in file order
MarkerLines(content) ==
    SelectSeq(content, LAMBDA line : Contains(line, ErrorMarker))

\* the (error_type, param) locals of each iteration of the loop
ErrorPairs(content) ==
    LET lines == MarkerLines(content) IN
    [k \in 1..Len(lines) |->
        LET info == error_info(lines[k]) IN <<error_type(info), param(info)>>]

\* f"{error_type} ({param})"
FormatErrorType(pair) == pair[1] \o <<" ", "(">> \o pair[2] \o <<")">>

\* ', '.join(error_types)
type_erreur(content) ==
    LET pairs == ErrorPairs(content) IN
    Join([k \in 1..Len(pairs) |-> FormatErrorType(pairs[k])], <<",", " ">>)

\* (variant: a missing line or separator gives an empty field, no exception)
extract_metadata_lenient(content) ==
    LET field(i) == IF HeaderFieldFails(content, i) THEN <<>> ELSE HeaderField(content, i)
    IN  Returned([instruments |-> field(1), periode |-> field(2), model |-> field(3),
                  region |-> field(4), type_erreur |-> type_erreur(content)])

extract_metadata(content) ==
    IF \E i \in 1..4 : HeaderFieldFails(content, i)
    THEN Raised("IndexError", NoMetadata)
    ELSE Returned([instruments |-> HeaderField(content, 1),
                   periode     |-> HeaderField(content, 2),
                   model       |-> HeaderField(content, 3),
                   region      |-> HeaderField(content, 4),
                   type_erreur |-> type_erreur(content)])

-----------------------------------------------------------------------------
(* pd.read_csv(file_path, skiprows=k, nrows=4, engine='python')             *)

\* one line as the csv reader yields it: the line end dropped, the rest
\* split at the commas; an empty line yields no field at all
CsvFields(line) ==
    LET text == IF line # <<>> /\ line[Len(line)] = "\n"
                THEN SubSeq(line, 1, Len(line) - 1) ELSE line
    IN  IF text = <<>> THEN <<>> ELSE Split(text, <<",">>)

\* skip_blank_lines (the default): a row with no field, or with one field
\* of white space only, is dropped
IsBlankRow(fields) ==
    \/ fields = <<>>
    \/ Len(fields) = 1 /\ Strip(fields[1]) = <<>>

\* (variant: one line too few is skipped, the marker line is read as well)
DataLines_from_marker(content, k) ==
    LET rest == SubSeq(content, k, Len(content))
        rows == [j \in 1..Len(rest) |-> CsvFields(rest[j])]
    IN  SelectSeq(rows, LAMBDA r : ~IsBlankRow(r))

\* the non-blank rows after the first k lines of the file
DataLines(content, k) ==
    LET rest == SubSeq(content, k + 1, Len(content))
        rows == [j \in 1..Len(rest) |-> CsvFields(rest[j])]
    IN  SelectSeq(rows, LAMBDA r : ~IsBlankRow(r))

\* the rows from position first on, nrows of them at most
TakeRows(lines, first) ==
    SubSeq(lines, first,
           IF Len(lines) < first + NRows - 1 THEN Len(lines) ELSE first + NRows - 1)

\* (variant: one data row too few is read)
read_csv_short(content, k) ==
    LET lines == DataLines(content, k)
        rows == SubSeq(lines, 2, IF Len(lines) < NRows THEN Len(lines) ELSE NRows)
    IN  IF lines = <<>> THEN Raised("EmptyDataError", NoTable)
        ELSE Returned([header |-> lines[1], rows |-> rows])

\* The first non-blank row is the header and the next nrows non-blank rows
\* are the data.  The fields the first data row has more than the header
\* are index columns; a row longer than header and index together is a bad
\* line.  When the second row after the header has as many fields as the
\* header and the first row together, the first row is taken as the names
\* of the index columns and the data start at the second row.
read_csv(content, k) ==
    LET lines == DataLines(content, k)
        header == lines[1]
        index_names == Len(lines) >= 3 /\ Len(lines[3]) = Len(lines[2]) + Len(header)
        rows == IF index_names THEN TakeRows(lines, 3) ELSE TakeRows(lines, 2)
        width == IF rows # <<>> /\ Len(rows[1]) > Len(header)
                 THEN Len(rows[1]) ELSE Len(header)
    IN  IF lines = <<>> THEN Raised("EmptyDataError", NoTable)
        ELSE IF \E r \in 1..Len(rows) : Len(rows[r]) > width
             THEN Raised("ParserError", NoTable)
             ELSE Returned([header |-> header, rows |-> rows])

-----------------------------------------------------------------------------
(* load_and_process_data *)

\* (variant: next(..., 0), a default index where no line has the marker)
FirstLineWith_default(content, marker) ==
    LET hits == {i \in 1..Len(content) : Contains(content[i], marker)}
    IN  IF hits = {} THEN 0 ELSE (CHOOSE i \in hits : \A j \in hits : i <= j) - 1

\* next(i for i, line in enumerate(content) if marker in line): the 0-based
\* index of the first line that contains marker; -1 stands for StopIteration
FirstLineWith(content, marker) ==
    LET hits == {i \in 1..Len(content) : Contains(content[i], marker)}
    IN  IF hits = {} THEN -1 ELSE (CHOOSE i \in hits : \A j \in hits : i <= j) - 1

load_and_process_data(content) ==
    LET dir_start == FirstLineWith(content, DirMarker)
        neva_start == FirstLineWith(content, NevaMarker)
        dir_data == read_csv(content, dir_start + 1)
        neva_data == read_csv(content, neva_start + 1)
    IN  IF dir_start = -1 \/ neva_start = -1 THEN Raised("StopIteration", NoTables)
        ELSE IF dir_data.status = "raised" THEN Raised(dir_data.error, NoTables)
        ELSE IF neva_data.status = "raised" THEN Raised(neva_data.error, NoTables)
        ELSE Returned([dir_data |-> dir_data.value, neva_data |-> neva_data.value])

-----------------------------------------------------------------------------
(* The report files: a report in the layout the program expects, changed by *)
(* at most MaxEdits edits (a line replaced, inserted or deleted, or the     *)
(* file cut short).                                                         *)

Title        == <<"Title", "\n">>
Instruments  == <<"Instruments", ":", " ", "HIRESv1", ",", "HIRESv3", "\n">>
Periode      == <<"Periode", ":", " ", "2020-2023", "\n">>
Modele       == <<"Modele", ":", " ", "MED", "\n">>
Region       == <<"Region", ":", " ", "Global", "\n">>
DirLine      == <<"Error Distribution", ":", " ", "Direction", " ", "(", "d0", ")", "\n">>
NevaLine     == <<"Error Distribution", ":", " ", "NEVA", " ", "(", "d1", ")", "\n">>
NevaBare     == <<"Error Distribution", ":", " ", "NEVA", "\n">>
DirNested    == <<"Error Distribution", ":", " ", "Direction", " ", "(", "HIRES", "(", "v1", ")", ")", "\n">>
Columns      == <<"bucket", ",", "HIRESv1_MED_d0", ",", "HIRESv3_MED_d1", "\n">>
Blank        == <<"\n">>
EmptyValue   == <<"Instruments", ":", " ", "\n">>
TextCell     == <<"x", ",", "many", ",", "8.7", "\n">>
LongRow      == <<"y", ",", "1.0", ",", "2.0", ",", "3.0", "\n">>

DataRow(label, a, b) == <<label, ",", a, ",", b, "\n">>

\* the tokens read_csv converts to a number (no other token of the reports
\* is a number or one of the texts read_csv takes for a missing value)
Numbers == {"12.3", "8.7", "30.1", "25.0", "40.2", "41.3", "17.4", "1.0", "2.0", "3.0"}

BaseReport ==
    << Title, Instruments, Periode, Modele, Region,
       DirLine, Columns,
       DataRow("0-15", "12.3", "8.7"), DataRow("15-45", "30.1", "25.0"),
       DataRow("45-90", "40.2", "41.3"), DataRow("90-180", "17.4", "25.0"),
       NevaLine, Columns,
       DataRow("0-33", "30.1", "41.3"), DataRow("33-66", "40.2", "25.0"),
       DataRow("66-100", "17.4", "8.7"), DataRow("100+", "12.3", "25.0") >>

EditLines ==
    { EmptyValue, Blank, TextCell, LongRow, DirLine, NevaBare, DirNested }

MaxEdits == 1

Replace(f, i, l) == [f EXCEPT ![i] = l]

Insert(f, i, l) == SubSeq(f, 1, i - 1) \o <<l>> \o SubSeq(f, i, Len(f))

Delete(f, i) == SubSeq(f, 1, i - 1) \o SubSeq(f, i + 1, Len(f))

CutShort(f, k) == SubSeq(f, 1, k)

\* the edits: what is done, where, and with which line
EditOps ==
    [kind : {"replace", "insert"}, at : 1..(Len(BaseReport) + MaxEdits), line : EditLines]
        \cup [kind : {"delete", "cut"}, at : 1..(Len(BaseReport) + MaxEdits), line : {Blank}]

\* an edit at a position the file does not have leaves the file as it is
ApplyEdit(f, e) ==
    CASE e.kind = "replace" /\ e.at <= Len(f)     -> Replace(f, e.at, e.line)
      [] e.kind = "insert"  /\ e.at <= Len(f) + 1 -> Insert(f, e.at, e.line)
      [] e.kind = "delete"  /\ e.at <= Len(f)     -> Delete(f, e.at)
      [] e.kind = "cut"     /\ e.at <= Len(f)     -> CutShort(f, e.at - 1)
      [] OTHER -> f

RECURSIVE ApplyEdits(_, _)
ApplyEdits(f, es) ==
    IF es = <<>> THEN f ELSE ApplyEdits(ApplyEdit(f, Head(es)), Tail(es))

\* file is BaseReport after MaxEdits edits
IsReport(f) == \E es \in [1..MaxEdits -> EditOps] : f = ApplyEdits(BaseReport, es)

-----------------------------------------------------------------------------
(* SpecExtract: the two extraction functions applied to one report, in any  *)
(* order, each once.                                                        *)

\* no file name: the selectbox not yet used, or not yet shown (None)
NoFile == [stem |-> -1, ext |-> ""]

\* (variant: the file is opened in a mode that truncates it)
AfterRead_truncated(content) == <<>>

\* with open(file_path, 'r') as file: content = file.readlines()
\* the file as it is after being opened for reading, read and closed
AfterRead(content) == content

PageIdle ==
    /\ data_dir = <<>>
    /\ pc = "idle"
    /\ idx = 0
    /\ files_data = <<>>
    /\ choice = NoFile
    /\ selected_file = NoFile
    /\ tables = NoTables
    /\ error = "none"
    /\ runs = 0
    /\ last_meta = <<>>
    /\ last_tables = <<>>

InitExtract ==
    /\ IsReport(file)
    /\ metaResult = NotCalled(NoMetadata)
    /\ parsed = <<>>
    /\ loadResult = NotCalled(NoTables)
    /\ PageIdle

CallExtractMetadata ==
    /\ pc = "idle"
    /\ metaResult.status = "not_called"
    /\ LET r == extract_metadata(file) IN
        /\ metaResult' = r
        /\ parsed' = IF r.status = "returned" THEN ErrorPairs(file) ELSE <<>>
    /\ file' = AfterRead(file)
    /\ UNCHANGED <<loadResult, pageVars>>

CallLoadAndProcess ==
    /\ pc = "idle"
    /\ loadResult.status = "not_called"
    /\ loadResult' = load_and_process_data(file)
    /\ file' = AfterRead(file)
    /\ UNCHANGED <<metaResult, parsed, pageVars>>

NextExtract == CallExtractMetadata \/ CallLoadAndProcess

SpecExtract == InitExtract /\ [][NextExtract]_vars

-----------------------------------------------------------------------------
(* What the page reads in the tables (lines 153-159 and display_analysis)  *)

\* number of leading fields of the rows that read_csv takes as the index:
\* the fields the first data row has more than the header
IndexWidth(t) ==
    IF t.rows # <<>> /\ Len(t.rows[1]) > Len(t.header)
    THEN Len(t.rows[1]) - Len(t.header) ELSE 0

\* name in table.columns
HasColumn(t, name) == \E j \in 1..Len(t.header) : t.header[j] = name

\* the text of the cell of row r in the first column called name; a row
\* too short to have the cell has a missing value there, like an empty cell
CellText(t, name, r) ==
    LET j == CHOOSE c \in 1..Len(t.header) :
                t.header[c] = name /\ \A d \in 1..(c - 1) : t.header[d] # name
        pos == j + IndexWidth(t)
    IN  IF pos <= Len(t.rows[r]) THEN t.rows[r][pos] ELSE <<>>

IsMissing(cell) == cell = <<>>

IsNumber(cell) == Len(cell) = 1 /\ cell[1] \in Numbers

\* the column is converted to float unless one of its cells is text; a
\* column with text is kept as it is, its cells the strings of the file
IsFloatColumn(t, name) ==
    \A r \in 1..Len(t.rows) :
        IsMissing(CellText(t, name, r)) \/ IsNumber(CellText(t, name, r))

\* f"{table[name].iloc[0]:.1f}": "none", or the exception raised
FormatFirst(t, name) ==
    IF ~HasColumn(t, name) THEN "KeyError"
    ELSE IF t.rows = <<>> THEN "IndexError"
    ELSE IF ~IsFloatColumn(t, name) /\ ~IsMissing(CellText(t, name, 1)) THEN "ValueError"
    ELSE "none"

\* f"{table[name].iloc[0:2].sum():.1f}": the sum of strings is a string
FormatSum(t, name) ==
    IF ~HasColumn(t, name) THEN "KeyError"
    ELSE IF /\ ~IsFloatColumn(t, name)
            /\ \E r \in 1..Len(t.rows) : r <= 2 /\ ~IsMissing(CellText(t, name, r))
         THEN "ValueError"
    ELSE "none"

\* the first of the outcomes that is an exception, "none" if none is
RECURSIVE FirstError(_)
FirstError(outcomes) ==
    IF outcomes = <<>> THEN "none"
    ELSE IF Head(outcomes) # "none" THEN Head(outcomes)
    ELSE FirstError(Tail(outcomes))

\* lines 153-159: the error_types frame of the selected file
describe_errors(t) ==
    FirstError(<<FormatFirst(t.dir_data, ColV1), FormatFirst(t.neva_data, ColV1)>>)

\* display_analysis(dir_data, neva_data)
display_analysis(t) ==
    FirstError(<<
        IF HasColumn(t.dir_data, ColV1) THEN "none" ELSE "KeyError",
        IF HasColumn(t.dir_data, ColV3) THEN "none" ELSE "KeyError",
        FormatSum(t.dir_data, ColV1), FormatSum(t.dir_data, ColV3),
        IF HasColumn(t.neva_data, ColV1) THEN "none" ELSE "KeyError",
        IF HasColumn(t.neva_data, ColV3) THEN "none" ELSE "KeyError",
        FormatSum(t.neva_data, ColV1), FormatSum(t.neva_data, ColV3) >>)

-----------------------------------------------------------------------------
(* Spec: the page.  Streamlit runs the script from the top on the first    *)
(* visit, on every reload and on every change of the selectbox.            *)

NFiles == 2
MaxRuns == 2

\* the reports put in the directory
SampleReports ==
    { BaseReport,
      Replace(BaseReport, 3, Title),        \* line 3 has no ': '
      CutShort(BaseReport, 3),              \* fewer than 5 lines
      Delete(BaseReport, 12),               \* no NEVA marker
      CutShort(BaseReport, 15),             \* 2 NEVA rows
      Replace(BaseReport, 8, TextCell),     \* text in a series cell
      Replace(BaseReport, 9, LongRow),      \* a row with a field too many
      Insert(BaseReport, 7, Blank) }        \* a blank line after the marker

FileName(k) == [stem |-> k, ext |-> ".csv"]

NotesEntry == [name |-> [stem |-> 0, ext |-> ".txt"], content |-> <<Title>>]

\* [f for f in os.listdir(directory) if f.endswith('.csv')]
list_csv_files(directory) ==
    LET csv == SelectSeq(directory, LAMBDA e : e.name.ext = ".csv")
    IN  [k \in 1..Len(csv) |-> csv[k].name]

\* os.path.join("data", name): the position of the entry called name
EntryOf(directory, name) ==
    CHOOSE k \in 1..Len(directory) : directory[k].name = name

\* (variant: region and instruments are swapped)
FileRow_swapped(name, metadata) ==
    [Fichier |-> name, Region |-> metadata.instruments,
     Instruments |-> metadata.region, Periode |-> metadata.periode,
     Modeles |-> metadata.model, Types_erreur |-> metadata.type_erreur]

\* one row of files_data
FileRow(name, metadata) ==
    [Fichier |-> name, Region |-> metadata.region,
     Instruments |-> metadata.instruments, Periode |-> metadata.periode,
     Modeles |-> metadata.model, Types_erreur |-> metadata.type_erreur]

ExtractIdle ==
    /\ file = <<>>
    /\ metaResult = NotCalled(NoMetadata)
    /\ parsed = <<>>
    /\ loadResult = NotCalled(NoTables)

Init ==
    /\ \E n \in 0..NFiles : \E cs \in [1..n -> SampleReports] :
        data_dir = <<NotesEntry>> \o [k \in 1..n |-> [name |-> FileName(k), content |-> cs[k]]]
    /\ pc = "listing"
    /\ idx = 1
    /\ files_data = <<>>
    /\ choice = NoFile
    /\ selected_file = NoFile
    /\ tables = NoTables
    /\ error = "none"
    /\ runs = 1
    /\ last_meta = [k \in 1..Len(data_dir) |-> NotCalled(NoMetadata)]
    /\ last_tables = [k \in 1..Len(data_dir) |-> NotCalled(NoTables)]
    /\ ExtractIdle

\* one iteration of the loop of create_files_dataframe
ListFile ==
    /\ pc = "listing" /\ error = "none"
    /\ idx <= Len(list_csv_files(data_dir))
    /\ LET name == list_csv_files(data_dir)[idx]
           k == EntryOf(data_dir, name)
           r == extract_metadata(data_dir[k].content)
       IN  /\ last_meta' = [last_meta EXCEPT ![k] = r]
           /\ data_dir' = [data_dir EXCEPT ![k].content = AfterRead(@)]
           /\ IF r.status = "raised"
              THEN /\ error' = r.error
                   /\ UNCHANGED <<pc, idx, files_data>>
              ELSE /\ files_data' = Append(files_data, FileRow(name, r.value))
                   /\ idx' = idx + 1
                   /\ UNCHANGED <<pc, error>>
    /\ UNCHANGED <<choice, selected_file, tables, runs, last_tables, extractVars>>

\* lines 115-143: the frame is built and shown; the selectbox returns the
\* user's pick if it is one of the options, else the first option;
\* files_df['Fichier'] raises KeyError on the frame of no rows
ShowListing ==
    /\ pc = "listing" /\ error = "none"
    /\ idx > Len(list_csv_files(data_dir))
    /\ IF files_data = <<>>
       THEN /\ pc' = "select"
            /\ error' = "KeyError"
            /\ UNCHANGED selected_file
       ELSE /\ selected_file' =
                IF \E j \in 1..Len(files_data) : files_data[j].Fichier = choice
                THEN choice ELSE files_data[1].Fichier
            /\ pc' = "load"
            /\ UNCHANGED error
    /\ UNCHANGED <<data_dir, idx, files_data, choice, tables, runs, last_meta,
                   last_tables, extractVars>>

\* line 147
LoadSelected ==
    /\ pc = "load" /\ error = "none"
    /\ LET k == EntryOf(data_dir, selected_file)
           r == load_and_process_data(data_dir[k].content)
       IN  /\ last_tables' = [last_tables EXCEPT ![k] = r]
           /\ data_dir' = [data_dir EXCEPT ![k].content = AfterRead(@)]
           /\ IF r.status = "raised"
              THEN /\ error' = r.error
                   /\ UNCHANGED <<pc, tables>>
              ELSE /\ tables' = r.value
                   /\ pc' = "describe"
                   /\ UNCHANGED error
    /\ UNCHANGED <<idx, files_data, choice, selected_file, runs, last_meta, extractVars>>

\* lines 150-162
DescribeErrors ==
    /\ pc = "describe" /\ error = "none"
    /\ IF describe_errors(tables) # "none"
       THEN error' = describe_errors(tables) /\ UNCHANGED pc
       ELSE pc' = "display" /\ UNCHANGED error
    /\ UNCHANGED <<data_dir, idx, files_data, choice, selected_file, tables, runs,
                   last_meta, last_tables, extractVars>>

\* line 165
DisplayAnalysis ==
    /\ pc = "display" /\ error = "none"
    /\ IF display_analysis(tables) # "none"
       THEN error' = display_analysis(tables) /\ UNCHANGED pc
       ELSE pc' = "done" /\ UNCHANGED error
    /\ UNCHANGED <<data_dir, idx, files_data, choice, selected_file, tables, runs,
                   last_meta, last_tables, extractVars>>

\* the script has run to its end, or an exception has ended it
RunEnded == pc = "done" \/ error # "none"

\* the script starts again from the top
Restart ==
    /\ pc' = "listing"
    /\ idx' = 1
    /\ files_data' = <<>>
    /\ selected_file' = NoFile
    /\ tables' = NoTables
    /\ error' = "none"
    /\ runs' = runs + 1
    /\ UNCHANGED <<data_dir, last_meta, last_tables, extractVars>>

\* the user reloads the page after a run has ended
Reload ==
    /\ RunEnded
    /\ runs < MaxRuns
    /\ UNCHANGED choice
    /\ Restart

\* the user picks a file in the selectbox of a run that showed it
UserSelects ==
    /\ RunEnded
    /\ selected_file # NoFile
    /\ runs < MaxRuns
    /\ \E j \in 1..Len(files_data) : choice' = files_data[j].Fichier
    /\ Restart

Next ==
    \/ ListFile
    \/ ShowListing
    \/ LoadSelected
    \/ DescribeErrors
    \/ DisplayAnalysis
    \/ Reload
    \/ UserSelects

Spec == Init /\ [][Next]_vars

-----------------------------------------------------------------------------
(* Properties of the extraction functions (SpecExtract).  What a claim     *)
(* says of a file is stated on the lines of the file, by position.         *)

MetaCalled == metaResult.status # "not_called"
LoadCalled == loadResult.status # "not_called"

HasLineWith(f, marker) == \E i \in 1..Len(f) : Contains(f[i], marker)

\* the number (from 1) of the first line of f that contains marker
MarkerLine(f, marker) ==
    LET hits == {i \in 1..Len(f) : Contains(f[i], marker)}
    IN  CHOOSE i \in hits : \A j \in hits : i <= j

\* the line is empty or white space only
IsBlankLine(line) == \A i \in 1..Len(line) : line[i] \in Whitespace

\* the text of s from position i on, up to the first of the tokens of stops
UpTo(s, i, stops) ==
    LET ends == {j \in i..Len(s) : s[j] \in stops}
        last == IF ends = {} THEN Len(s)
                ELSE (CHOOSE j \in ends : \A h \in ends : j <= h) - 1
    IN  SubSeq(s, i, last)

\* the text of s between the first occurrence of pat and the next one (or
\* the end of s)
AfterFirst(s, pat) ==
    LET i == Find(s, pat)
        rest == SubSeq(s, i + Len(pat), Len(s))
        j == Find(rest, pat)
    IN  IF j = 0 THEN rest ELSE SubSeq(rest, 1, j - 1)

\* lines 2-5 of f exist and each contains ': '
HeaderHasSeparators(f) ==
    Len(f) >= 5 /\ \A i \in 2..5 : Contains(f[i], FieldSep)

\* ... and each has a value that is not blank after its first ': '
HeaderHasValues(f) ==
    /\ HeaderHasSeparators(f)
    /\ \A i \in 2..5 : ~IsBlankLine(AfterFirst(f[i], FieldSep))

FieldCount(line) == 1 + Cardinality({i \in 1..Len(line) : line[i] = ","})

\* the n lines after line m of f exist
HasLinesAfter(f, m, n) == Len(f) >= m + n

\* the header line and the 4 data lines after marker line m exist, none is
\* blank, and no data line has more fields than both the header line and
\* the first data line
WindowIsTable(f, m) ==
    /\ HasLinesAfter(f, m, NRows + 1)
    /\ \A i \in (m + 1)..(m + NRows + 1) : ~IsBlankLine(f[i])
    /\ \A i \in (m + 2)..(m + NRows + 1) :
        \/ FieldCount(f[i]) <= FieldCount(f[m + 1])
        \/ FieldCount(f[i]) <= FieldCount(f[m + 2])

FourFieldsNonEmpty(md) ==
    md.instruments # <<>> /\ md.periode # <<>> /\ md.model # <<>> /\ md.region # <<>>

\* C1 as stated: header lines 2-5 well-formed, both markers present and at
\* least 4 lines after each marker: metadata with four non-empty fields and
\* two tables of exactly 4 rows are returned.
C1_Original ==
    ( /\ HeaderHasSeparators(file)
      /\ HasLineWith(file, DirMarker) /\ HasLineWith(file, NevaMarker)
      /\ HasLinesAfter(file, MarkerLine(file, DirMarker), NRows)
      /\ HasLinesAfter(file, MarkerLine(file, NevaMarker), NRows) )
    => /\ MetaCalled =>
            metaResult.status = "returned" /\ FourFieldsNonEmpty(metaResult.value)
       /\ LoadCalled =>
            /\ loadResult.status = "returned"
            /\ Len(loadResult.value.dir_data.rows) = NRows
            /\ Len(loadResult.value.neva_data.rows) = NRows

C1_Precondition ==
    /\ HeaderHasValues(file)
    /\ HasLineWith(file, DirMarker) /\ HasLineWith(file, NevaMarker)
    /\ WindowIsTable(file, MarkerLine(file, DirMarker))
    /\ WindowIsTable(file, MarkerLine(file, NevaMarker))

\* C1 (amended): when each of lines 2-5 has a non-blank value after its first
\* ': ', both markers are present, and the first line with each marker is
\* followed by 5 non-blank lines (the column header and 4 data rows, no data
\* row longer than both the header and the first data row), extract_metadata
\* returns four non-empty fields and load_and_process_data returns two tables
\* of exactly 4 rows.
C1_ValidReport ==
    C1_Precondition
    => /\ MetaCalled =>
            metaResult.status = "returned" /\ FourFieldsNonEmpty(metaResult.value)
       /\ LoadCalled =>
            /\ loadResult.status = "returned"
            /\ Len(loadResult.value.dir_data.rows) = NRows
            /\ Len(loadResult.value.neva_data.rows) = NRows

\* a valid report other than the base report, after both calls
C1_Witness ==
    /\ C1_Precondition /\ file # BaseReport
    /\ metaResult.status = "returned" /\ loadResult.status = "returned"
    /\ Len(loadResult.value.neva_data.rows) = NRows

\* C2: without a line containing 'Error Distribution: NEVA' the load raises
\* StopIteration (marker not found) and returns no table.
C2_MissingNevaRaises ==
    (LoadCalled /\ ~HasLineWith(file, NevaMarker))
    => /\ loadResult.status = "raised"
       /\ loadResult.error = "StopIteration"
       /\ loadResult.value = NoTables

\* the Direction marker and its 4 rows are present, the NEVA marker is not
C2_Witness ==
    /\ LoadCalled /\ ~HasLineWith(file, NevaMarker)
    /\ HasLineWith(file, DirMarker)
    /\ WindowIsTable(file, MarkerLine(file, DirMarker))
    /\ loadResult.status = "raised"

\* C3 as stated: with fewer than 4 data rows left after a marker line and
\* its header line the load fails; no table of fewer than 4 rows is returned.
C3_ShortTableRaises ==
    LoadCalled
    => /\ ( \E marker \in {DirMarker, NevaMarker} :
                /\ HasLineWith(file, marker)
                /\ ~HasLinesAfter(file, MarkerLine(file, marker), NRows + 1) )
            => loadResult.status = "raised"
       /\ loadResult.status = "returned"
            => /\ Len(loadResult.value.dir_data.rows) >= NRows
               /\ Len(loadResult.value.neva_data.rows) >= NRows

\* the cells of the named series of a table are numbers or missing
SeriesAreNumeric(t) ==
    \A name \in {ColV1, ColV3} : HasColumn(t, name) => IsFloatColumn(t, name)

\* C4 as stated: a table with text in a cell of a numeric series is not
\* returned by the load.
C4_TextCellRaises ==
    (LoadCalled /\ loadResult.status = "returned")
    => /\ SeriesAreNumeric(loadResult.value.dir_data)
       /\ SeriesAreNumeric(loadResult.value.neva_data)

\* C5: extract_metadata raises IndexError (malformed header) and returns no
\* metadata when the file has fewer than 5 lines or one of lines 2-5 has no
\* ': '; otherwise it returns the four fields, each the stripped text after
\* the line's first ': '.
C5_HeaderErrors ==
    MetaCalled
    => IF HeaderHasSeparators(file)
       THEN /\ metaResult.status = "returned"
            /\ metaResult.value.instruments = Strip(AfterFirst(file[2], FieldSep))
            /\ metaResult.value.periode = Strip(AfterFirst(file[3], FieldSep))
            /\ metaResult.value.model = Strip(AfterFirst(file[4], FieldSep))
            /\ metaResult.value.region = Strip(AfterFirst(file[5], FieldSep))
       ELSE /\ metaResult.status = "raised"
            /\ metaResult.error = "IndexError"
            /\ metaResult.value = NoMetadata

\* five lines or more, one of lines 2-5 without separator
C5_Witness ==
    /\ MetaCalled /\ Len(file) >= 5 /\ ~HeaderHasSeparators(file)
    /\ metaResult.status = "raised"

\* the text after 'Error Distribution:' in a marker line, trimmed
InfoOf(line) == Strip(AfterFirst(line, ErrorMarker))

\* position of the first '(' of info, 0 if it has none
OpenParen(info) == Find(info, <<"(">>)

KindOf(info) ==
    IF OpenParen(info) = 0 THEN info ELSE Strip(SubSeq(info, 1, OpenParen(info) - 1))

\* the parameter as C6 states it: up to the ')' that follows the first '('
ParamToCloseParen(info) ==
    IF OpenParen(info) = 0 THEN <<>> ELSE UpTo(info, OpenParen(info) + 1, {")"})

\* the parameter as the code cuts it: up to the next '(' or ')'
ParamToNextParen(info) ==
    IF OpenParen(info) = 0 THEN <<>> ELSE UpTo(info, OpenParen(info) + 1, {"(", ")"})

\* the marker lines of the file, by position
LinesWithErrorMarker(f) == SelectSeq(f, LAMBDA line : Contains(line, ErrorMarker))

\* C6 as stated: parameter is the text between the first '(' and the
\* following ')'.
C6_Original ==
    (MetaCalled /\ metaResult.status = "returned")
    => /\ Len(parsed) = Len(LinesWithErrorMarker(file))
       /\ \A k \in 1..Len(parsed) :
            LET info == InfoOf(LinesWithErrorMarker(file)[k])
            IN  parsed[k] = <<KindOf(info), ParamToCloseParen(info)>>

\* C6 (amended): for every line containing 'Error Distribution:', kind is the
\* trimmed text before the first '(' and parameter is the text after the
\* first '(' up to the next '(' or ')' (or the end of the text); without '('
\* the parameter is empty and kind is the whole trimmed text.
C6_ErrorTypePairs ==
    (MetaCalled /\ metaResult.status = "returned")
    => /\ Len(parsed) = Len(LinesWithErrorMarker(file))
       /\ \A k \in 1..Len(parsed) :
            LET info == InfoOf(LinesWithErrorMarker(file)[k])
            IN  parsed[k] = <<KindOf(info), ParamToNextParen(info)>>
       /\ metaResult.value.type_erreur =
            Join([k \in 1..Len(parsed) |->
                    parsed[k][1] \o <<" ", "(">> \o parsed[k][2] \o <<")">>], <<",", " ">>)

\* a marker with a parameter and the marker NEVA without one, both parsed
C6_Witness ==
    /\ metaResult.status = "returned"
    /\ \E k \in 1..Len(parsed) : parsed[k] = << <<"Direction">>, <<"d0">> >>
    /\ \E k \in 1..Len(parsed) : parsed[k] = << <<"NEVA">>, <<>> >>

\* the header and the rows of table t are lines m+1 and m+2 .. m+5 of f
TableIsWindow(t, f, m) ==
    /\ t.header = CsvFields(f[m + 1])
    /\ t.rows = [r \in 1..NRows |-> CsvFields(f[m + 1 + r])]

\* C9 as stated: for every file content in which the window lies in the
\* file, line m+1 is the header and lines m+2 .. m+5 are the rows.
C9_Original ==
    ( /\ LoadCalled /\ loadResult.status = "returned"
      /\ HasLinesAfter(file, MarkerLine(file, DirMarker), NRows + 1)
      /\ HasLinesAfter(file, MarkerLine(file, NevaMarker), NRows + 1) )
    => /\ TableIsWindow(loadResult.value.dir_data, file, MarkerLine(file, DirMarker))
       /\ TableIsWindow(loadResult.value.neva_data, file, MarkerLine(file, NevaMarker))

\* C9 (amended): for each table, when the 5 lines after the first line that
\* contains the marker exist, none of them is blank and no data line has
\* more fields than both the header line and the first data line, the table
\* returned has line m+1 as its header and exactly lines m+2 .. m+5 as its
\* rows, also when the marker occurs more than once and when the other
\* marker line falls inside the window.
C9_TableWindow ==
    (LoadCalled /\ loadResult.status = "returned")
    => /\ WindowIsTable(file, MarkerLine(file, DirMarker))
            => TableIsWindow(loadResult.value.dir_data, file, MarkerLine(file, DirMarker))
       /\ WindowIsTable(file, MarkerLine(file, NevaMarker))
            => TableIsWindow(loadResult.value.neva_data, file, MarkerLine(file, NevaMarker))

\* the NEVA marker line lies inside the window of the Direction table
C9_Witness ==
    /\ LoadCalled /\ loadResult.status = "returned"
    /\ WindowIsTable(file, MarkerLine(file, DirMarker))
    /\ WindowIsTable(file, MarkerLine(file, NevaMarker))
    /\ MarkerLine(file, NevaMarker) > MarkerLine(file, DirMarker)
    /\ MarkerLine(file, NevaMarker) <= MarkerLine(file, DirMarker) + NRows + 1

-----------------------------------------------------------------------------
(* Properties of the page (Spec) *)

\* the positions in data_dir of the files list_csv_files returns
CsvEntries == {k \in 1..Len(data_dir) : data_dir[k].name.ext = ".csv"}

HasRow(name) == \E j \in 1..Len(files_data) : files_data[j].Fichier = name

\* one of the two extraction functions raises on content
ExtractionFails(content) ==
    \/ extract_metadata(content).status = "raised"
    \/ load_and_process_data(content).status = "raised"

\* C7 as stated: when extraction fails for one of several files, the run
\* still lists every other file and is not ended by the failure.
C7_FailureConfined ==
    ( /\ RunEnded
      /\ Cardinality(CsvEntries) >= 2
      /\ Cardinality({k \in CsvEntries : ExtractionFails(data_dir[k].content)}) = 1 )
    => /\ \A k \in CsvEntries :
            ~ExtractionFails(data_dir[k].content) => HasRow(data_dir[k].name)
       /\ ~(error # "none" /\ pc \in {"listing", "load"})

NoTablePossible(content) ==
    \E marker \in {DirMarker, NevaMarker} :
        \/ ~HasLineWith(content, marker)
        \/ LET m == MarkerLine(content, marker) IN
            \/ \A i \in (m + 1)..Len(content) : IsBlankLine(content[i])
            \/ \E i \in (m + 3)..(m + NRows + 1) :
                /\ i <= Len(content)
                /\ \A h \in (m + 1)..i : ~IsBlankLine(content[h])
                /\ FieldCount(content[i]) > FieldCount(content[m + 1])
                /\ FieldCount(content[i]) > FieldCount(content[m + 2])
                /\ FieldCount(content[m + 3]) #
                        FieldCount(content[m + 1]) + FieldCount(content[m + 2])

=============================================================================
